---- MODULE Spec2Model ----
(***************************************************************************)
(* A model of the CPU cache simulator: CacheSim (cache_sim.py) drives a    *)
(* Cache (cache.py) of CacheSets (cache_set.py), each holding CacheBlocks  *)
(* (cache_block.py) and one TagQueue (tag_queue.py), in front of a byte    *)
(* array `memory`.                                                         *)
(*                                                                         *)
(* Conventions.  Python lists are sequences, so the Python index i is the  *)
(* TLA+ index i + 1 and the Python index -1 is the last element (PyIndex). *)
(* None is the empty tuple <<>>.  A bytearray is a sequence of numbers in  *)
(* 0..255.  Dictionaries are records; `d1 | d2` is d2 @@ d1.               *)
(***************************************************************************)
EXTENDS Integers, Sequences, FiniteSets, TLC

VARIABLES
    address_size,   \* Cache.address_size / CacheSim.address_size
    cache_size,     \* Cache.cache_size
    block_size,     \* Cache.block_size
    associativity,  \* Cache.associativity
    write_back,     \* Cache.write_back
    memory,         \* CacheSim.memory, as words: memory[a] = bytes a .. a+3
    sets,           \* Cache.sets
    result,         \* the last CacheSim call and what it returned or raised
    queue,          \* TagQueue.queue of a tag queue used on its own
    touches,        \* the tags passed to update_queue of that queue, in order
    ops,            \* how many operations the driver has issued
    trace           \* the operations of a driver script executed so far

config == <<address_size, cache_size, block_size, associativity, write_back>>
vars == <<address_size, cache_size, block_size, associativity, write_back,
          memory, sets, result, queue, touches, ops, trace>>

None == <<>>

-----------------------------------------------------------------------------
(* Bounds of the model *)

\* most operations a driver issues under Spec and SpecSim
MaxOps == 4
\* most operations a driver issues under SpecSim
MaxSimOps == 3
\* longest driver script followed under SpecMain
MaxTrace == 4
\* most calls of update_queue followed under SpecTQ
MaxTouches == 7
\* largest tag queue built under SpecTQ
MaxQueueSize == 3
\* number of tags touched under SpecTQ
MaxTag == 4
\* addresses 0 .. MaxSplitAddr - 1 are split under SpecSplit
MaxSplitAddr == 1100
\* the sizes Cache.__init__ is called with under SpecNew
MaxAddressSize == 4
MaxCacheSize == 40
MaxBlockSize == 8
MaxAssociativity == 3

\* the addresses the drivers of the model pass to read and write
AddrPool == {0, 4, 32, 64, 128, 1024}
\* the words the drivers of the model pass to write
WordPool == {4, 258}
\* addresses the driver-level checks are exercised on, besides AddrPool and
\* the two addresses at and after the end of the memory
BadAddrs == {-4, 2, 6}

-----------------------------------------------------------------------------
(* main.py *)

ADDRESS_SIZE == 16
CACHE_SIZE == 1024
BLOCK_SIZE == 64
ASSOCIATIVITY == 1
WRITE_BACK == TRUE

\* <<address_size, cache_size, block_size, associativity>> of the caches built
Geometries == { <<ADDRESS_SIZE, CACHE_SIZE, BLOCK_SIZE, ASSOCIATIVITY>>,
                <<8, 64, 32, 1>>, <<8, 64, 32, 2>>, <<8, 128, 32, 2>> }

-----------------------------------------------------------------------------
(* arithmetic *)

\* math.pow(2, n)
Pow2(n) == 2 ^ n

RECURSIVE Log2(_)
\* int(math.log(x, 2)) for x >= 1
Log2(x) == IF x <= 1 THEN 0 ELSE 1 + Log2(x \div 2)

\* list[i] of Python as an index of a sequence of length len
PyIndex(i, len) == IF i < 0 THEN len + i + 1 ELSE i + 1

-----------------------------------------------------------------------------
(* Cache.__init__ and CacheSim.__init__: derived sizes *)

memory_size == Pow2(address_size)
num_blocks == cache_size \div block_size
num_sets == num_blocks \div associativity
num_blocks_per_set == num_blocks \div num_sets
\* index_size taken from the number of blocks instead of the number of sets
index_size_of_blocks == Log2(num_blocks)
index_size == Log2(num_sets)
block_offset_size == Log2(block_size)
tag_size == address_size - (index_size + block_offset_size)

\* Cache.split_address
split_address(address) ==
    LET block_offset == address % Pow2(block_offset_size)
        address_split1 == address \div Pow2(block_offset_size)
        index == address_split1 % Pow2(index_size)
        address_split2 == address_split1 \div Pow2(index_size)
        tag == address_split2
    IN  <<block_offset, index, tag>>

\* cache_set.find_range
find_range(address, bsize) ==
    LET lower_limit == bsize * (address \div bsize)
        upper_limit == lower_limit + (bsize - 1)
    IN  <<lower_limit, upper_limit>>

\* cache_sim.int_to_bytearray
int_to_bytearray(num) ==
    LET num_bits_to_remove == Pow2(8)
        w0 == num
        w1 == w0 \div num_bits_to_remove
        w2 == w1 \div num_bits_to_remove
        w3 == w2 \div num_bits_to_remove
    IN  <<w0 % num_bits_to_remove, w1 % num_bits_to_remove,
          w2 % num_bits_to_remove, w3 % num_bits_to_remove>>

\* the word-aligned addresses of memory the drivers of the model can reach
WordAddrs == {a \in AddrPool : a % 4 = 0 /\ 0 <= a /\ a < memory_size}

\* CacheSim.__init__: the word at address i holds i, least significant byte
\* first (memory is kept for the words the model can reach)
InitMemory == [a \in WordAddrs |-> int_to_bytearray(a)]

-----------------------------------------------------------------------------
(* cache_block.py *)

\* CacheBlock.__init__
CacheBlock ==
    [occupied |-> FALSE, dirty |-> FALSE, tag |-> -1,
     word |-> [i \in 1..(block_size \div 8) |-> 0]]

\* the first i in 0..3 at which `word[i]` or `memory[address + i]` raises
\* IndexError, 4 when none does
FirstBadByte(word, address) ==
    LET bad == {i \in 0..3 : i >= Len(word) \/ address + i >= memory_size}
    IN  IF bad = {} THEN 4 ELSE CHOOSE i \in bad : \A j \in bad : i <= j

\* read_from_memory that forgets to mark the block occupied
Block_read_from_memory_unmarked(b, mem, address, tag) ==
    LET n == FirstBadByte(b.word, address)
    IN  [block |-> [b EXCEPT !.tag = tag,
                      !.word = [i \in 1..Len(b.word) |->
                                  IF i <= n THEN mem[address][i] ELSE b.word[i]]],
         raised |-> n < 4]

\* CacheBlock.read_from_memory
Block_read_from_memory(b, mem, address, tag) ==
    LET n == FirstBadByte(b.word, address)
    IN  [block |-> [b EXCEPT !.occupied = TRUE, !.tag = tag,
                      !.word = [i \in 1..Len(b.word) |->
                                  IF i <= n THEN mem[address][i] ELSE b.word[i]]],
         raised |-> n < 4]

\* CacheBlock.read_from_cache
Block_read_from_cache(b, tag) == [b EXCEPT !.tag = tag, !.occupied = TRUE]

\* CacheBlock.write_to_memory
Block_write_to_memory(b, mem, address) ==
    LET n == FirstBadByte(b.word, address)
    IN  [memory |-> IF n = 0 THEN mem
                    ELSE [mem EXCEPT ![address] =
                            [i \in 1..4 |-> IF i <= n THEN b.word[i] ELSE @[i]]],
         raised |-> n < 4]

\* CacheBlock.write_to_cache
Block_write_to_cache(b, word) == [b EXCEPT !.word = word]

\* CacheBlock.clear_block
clear_block(b) ==
    [b EXCEPT !.occupied = FALSE, !.dirty = FALSE, !.tag = -1,
              !.word = <<0, 0, 0, 0>>]

\* CacheBlock.get_word_dec
get_word_dec(b) ==
    b.word[1] + 256 * (b.word[2] + 256 * (b.word[3] + 256 * (b.word[4])))

-----------------------------------------------------------------------------
(* tag_queue.py *)

\* TagQueue.__init__
TagQueue(size) == [i \in 1..size |-> -1]

\* q.pop(i) followed by q.append(tag), i a TLA+ index
PopAppend(q, i, tag) ==
    [j \in 1..Len(q) |-> IF j < i THEN q[j]
                         ELSE IF j < Len(q) THEN q[j + 1] ELSE tag]

\* update_queue that leaves a tag that is present where it is
update_queue_fifo(q, tag) ==
    IF \E i \in 1..Len(q) : q[i] = tag THEN q ELSE PopAppend(q, 1, tag)

\* TagQueue.update_queue: the queue afterwards
update_queue(q, tag) ==
    LET found == {i \in 1..Len(q) : q[i] = tag}
    IN  IF found # {}
        THEN PopAppend(q, CHOOSE i \in found : \A j \in found : i <= j, tag)
        ELSE PopAppend(q, 1, tag)

\* TagQueue.update_queue: the value returned
update_queue_ret(q, tag) == \E i \in 1..Len(q) : q[i] = tag

\* get_least_recently_used that peeks at the other end of the queue
get_most_recently_used(q) == q[Len(q)]

\* TagQueue.get_least_recently_used
get_least_recently_used(q) == q[1]

-----------------------------------------------------------------------------
(* cache_set.py *)

\* CacheSet.__init__
CacheSet(set_index) ==
    [tag_queue |-> TagQueue(num_blocks_per_set),
     blocks |-> [i \in 1..num_blocks_per_set |-> CacheBlock],
     set_index |-> set_index,
     evicted_tag |-> -1,
     evicted_block_index |-> -1,
     last_write_address |-> -1]

\* CacheSet.find_free_block: the TLA+ index of the block, 0 for None
find_free_block(s) ==
    LET free == {i \in 1..Len(s.blocks) : ~s.blocks[i].occupied}
    IN  IF free = {} THEN 0 ELSE CHOOSE i \in free : \A j \in free : i <= j

\* find_block_index that looks at the first block only
find_block_index_first(s, tag) ==
    IF s.blocks[1].tag = tag /\ s.blocks[1].occupied THEN 0 ELSE -1

\* CacheSet.find_block_index: a Python index, -1 when there is none
find_block_index(s, tag) ==
    LET hits == {i \in 1..Len(s.blocks) :
                    s.blocks[i].tag = tag /\ s.blocks[i].occupied}
    IN  IF hits = {} THEN -1
        ELSE (CHOOSE i \in hits : \A j \in hits : i <= j) - 1

\* CacheSet.add_basic_operation_details
add_basic_operation_details(s, operation_details, address, offset, tag) ==
    LET block_range == find_range(address, block_size)
    IN  [address |-> address, offset |-> offset, set_index |-> s.set_index,
         tag |-> tag, block_range |-> block_range,
         tag_queue |-> s.tag_queue] @@ operation_details

\* what an operation that raised leaves behind
Raised(s, mem) == [set |-> s, memory |-> mem, raised |-> TRUE, details |-> None]

\* CacheSet.replace_cache_block; block_index is the TLA+ index of the block
\* returned
replace_cache_block(s, mem, address, tag) ==
    LET least_recently_used_tag == get_least_recently_used(s.tag_queue)
        least_recently_used_block_index == find_block_index(s, least_recently_used_tag)
        k == PyIndex(least_recently_used_block_index, Len(s.blocks))
        flushing == write_back /\ s.blocks[k].dirty
        w == Block_write_to_memory(s.blocks[k], mem, address)
        mem1 == IF flushing THEN w.memory ELSE mem
        s1 == IF flushing THEN [s EXCEPT !.last_write_address = address] ELSE s
        d1 == [write_back |-> IF flushing THEN find_range(address, block_size)
                              ELSE None]
        r == Block_read_from_memory(clear_block(s1.blocks[k]), mem1, address, tag)
        s2 == [s1 EXCEPT !.blocks[k] = r.block]
    IN  IF flushing /\ w.raised THEN Raised(s, mem1) @@ [block_index |-> k]
        ELSE IF r.raised THEN Raised(s2, mem1) @@ [block_index |-> k]
        ELSE [set |-> s2, memory |-> mem1, raised |-> FALSE, block_index |-> k,
              details |-> [replace_details |->
                             <<least_recently_used_tag,
                               least_recently_used_block_index>>] @@ d1]

\* CacheSet.read_from_memory
Set_read_from_memory(s, mem, address, tag, offset) ==
    LET s1 == [s EXCEPT !.last_write_address = -1]
        free_block == find_free_block(s1)
        f == Block_read_from_memory(s1.blocks[free_block], mem, address, tag)
        sf == [s1 EXCEPT !.blocks[free_block] = f.block]
        p == replace_cache_block(s1, mem, address, tag)
    IN  IF free_block # 0
        THEN IF f.raised THEN Raised(sf, mem)
             ELSE LET s2 == [sf EXCEPT !.evicted_tag = -1,
                                       !.evicted_block_index = -1,
                                       !.tag_queue = update_queue(@, tag)]
                  IN  [set |-> s2, memory |-> mem, raised |-> FALSE,
                       details |-> add_basic_operation_details(s2,
                           [replace_details |-> None,
                            word |-> get_word_dec(s2.blocks[free_block])],
                           address, offset, tag)]
        ELSE IF p.raised THEN Raised(p.set, p.memory)
             ELSE LET s2 == [p.set EXCEPT !.tag_queue = update_queue(@, tag)]
                  IN  [set |-> s2, memory |-> p.memory, raised |-> FALSE,
                       details |-> add_basic_operation_details(s2,
                           [word |-> get_word_dec(s2.blocks[p.block_index])]
                               @@ p.details,
                           address, offset, tag)]

\* CacheSet.read_from_cache
Set_read_from_cache(s, mem, address, tag, block_index, offset) ==
    LET k == PyIndex(block_index, Len(s.blocks))
        s1 == [s EXCEPT !.blocks[k] = Block_read_from_cache(@, tag),
                        !.tag_queue = update_queue(@, tag)]
    IN  [set |-> s1, memory |-> mem, raised |-> FALSE,
         details |-> add_basic_operation_details(s1,
             [word |-> get_word_dec(s1.blocks[k]), replace_details |-> None],
             address, offset, tag)]

\* CacheSet.write_to_cache_wb
write_to_cache_wb(s, mem, block_index, word) ==
    LET k == PyIndex(block_index, Len(s.blocks))
        s1 == [s EXCEPT !.blocks[k] =
                 [Block_write_to_cache(@, word) EXCEPT !.dirty = TRUE]]
    IN  [set |-> s1, memory |-> mem, raised |-> FALSE,
         details |-> [word |-> get_word_dec(s1.blocks[k]), write_back |-> TRUE]]

\* write_to_cache_wt that leaves the word in the block only
write_to_cache_wt_unstored(s, mem, address, block_index, word) ==
    LET k == PyIndex(block_index, Len(s.blocks))
        s1 == [s EXCEPT !.blocks[k] = Block_write_to_cache(@, word)]
    IN  [set |-> s1, memory |-> mem, raised |-> FALSE,
         details |-> [word |-> get_word_dec(s1.blocks[k]),
                      write_back |-> FALSE]]

\* CacheSet.write_to_cache_wt
write_to_cache_wt(s, mem, address, block_index, word) ==
    LET k == PyIndex(block_index, Len(s.blocks))
        s1 == [s EXCEPT !.blocks[k] = Block_write_to_cache(@, word)]
        w == Block_write_to_memory(s1.blocks[k], mem, address)
    IN  IF w.raised THEN Raised(s1, w.memory)
        ELSE [set |-> s1, memory |-> w.memory, raised |-> FALSE,
              details |-> [word |-> get_word_dec(s1.blocks[k]),
                           write_back |-> FALSE]]

\* write_to_cache with the two write policies exchanged
Set_write_to_cache_swapped(s, mem, address, tag, block_index, offset, word, wb) ==
    LET operation_details == add_basic_operation_details(s, <<>>, address, offset, tag)
        r == IF wb THEN write_to_cache_wt(s, mem, address, block_index, word)
             ELSE write_to_cache_wb(s, mem, block_index, word)
    IN  IF r.raised THEN r
        ELSE [r EXCEPT !.details = @ @@ operation_details]

\* CacheSet.write_to_cache
Set_write_to_cache(s, mem, address, tag, block_index, offset, word, wb) ==
    LET operation_details == add_basic_operation_details(s, <<>>, address, offset, tag)
        r == IF wb THEN write_to_cache_wb(s, mem, block_index, word)
             ELSE write_to_cache_wt(s, mem, address, block_index, word)
    IN  IF r.raised THEN r
        ELSE [r EXCEPT !.details = @ @@ operation_details]

-----------------------------------------------------------------------------
(* cache.py: an operation maps the sets and the memory to the sets and the *)
(* memory afterwards, with the dictionary returned unless it raised        *)

\* every entry of the list of sets being the one set object
WithSet_shared(ss, index, r) ==
    [sets |-> [i \in 1..Len(ss) |-> r.set], memory |-> r.memory,
     raised |-> r.raised, details |-> r.details]

\* the set always stored back at Python index 0
WithSet_first(ss, index, r) ==
    [sets |-> [ss EXCEPT ![1] = r.set], memory |-> r.memory,
     raised |-> r.raised, details |-> r.details]

\* the sets with the one at Python index `index` replaced
WithSet(ss, index, r) ==
    [sets |-> [ss EXCEPT ![index + 1] = r.set], memory |-> r.memory,
     raised |-> r.raised, details |-> r.details]

\* Cache.read
Cache_read(ss, mem, address) ==
    LET sp == split_address(address)
        block_offset == sp[1]
        index == sp[2]
        tag == sp[3]
        target_set == ss[index + 1]
        block_index == find_block_index(target_set, tag)
        r == IF block_index = -1
             THEN Set_read_from_memory(target_set, mem, address, tag, block_offset)
             ELSE Set_read_from_cache(target_set, mem, address, tag,
                                      block_index, block_offset)
    IN  WithSet(ss, index,
            IF r.raised THEN r
            ELSE [r EXCEPT !.details =
                    @ @@ [hit_or_miss |->
                            IF block_index = -1 THEN "miss" ELSE "hit"]])

\* Cache.write
Cache_write(ss, mem, address, word) ==
    LET sp == split_address(address)
        block_offset == sp[1]
        index == sp[2]
        tag == sp[3]
        target_set == ss[index + 1]
        block_index == find_block_index(target_set, tag)
        m == Set_read_from_memory(target_set, mem, address, tag, block_offset)
        miss == block_index = -1
        s1 == IF miss THEN m.set ELSE target_set
        mem1 == IF miss THEN m.memory ELSE mem
        r == Set_write_to_cache(s1, mem1, address, tag, block_index,
                                block_offset, word, write_back)
    IN  WithSet(ss, index,
            IF miss /\ m.raised THEN m
            ELSE IF r.raised THEN r
            ELSE [r EXCEPT !.details =
                    @ @@ [hit_or_miss |-> IF miss THEN "miss" ELSE "hit"]])

-----------------------------------------------------------------------------
(* cache_sim.py *)

\* the asserts of CacheSim.read and CacheSim.write
AddressAccepted(address) ==
    /\ address % 4 = 0
    /\ 0 <= address /\ address <= memory_size

\* the outcome of a CacheSim operation on the cache: the state it leaves and
\* the result the driver sees
Outcome(op_type, args, r) ==
    /\ sets' = r.sets
    /\ memory' = r.memory
    /\ result' = IF r.raised
                 THEN [op_type |-> op_type, args |-> args,
                       outcome |-> "IndexError"]
                 ELSE [op_type |-> op_type, args |-> args, outcome |-> "ok"]
                          @@ r.details

\* a failed assert: nothing has been done yet
Rejected(op_type, args) ==
    /\ result' = [op_type |-> op_type, args |-> args,
                  outcome |-> "AssertionError"]
    /\ UNCHANGED <<sets, memory>>

\* CacheSim.read
CacheSim_read(address) ==
    /\ IF AddressAccepted(address)
       THEN Outcome("read", <<address>>, Cache_read(sets, memory, address))
       ELSE Rejected("read", <<address>>)
    /\ UNCHANGED config

\* CacheSim.write
CacheSim_write(address, word) ==
    /\ IF AddressAccepted(address)
       THEN Outcome("write", <<address, word>>,
                    Cache_write(sets, memory, address, int_to_bytearray(word)))
       ELSE Rejected("write", <<address, word>>)
    /\ UNCHANGED config

-----------------------------------------------------------------------------
(* Specifications *)

\* CacheSim.__init__ for one of the geometries and either write policy
InitCache ==
    /\ \E g \in Geometries :
         /\ address_size = g[1]
         /\ cache_size = g[2]
         /\ block_size = g[3]
         /\ associativity = g[4]
    /\ write_back \in BOOLEAN
    /\ memory = InitMemory
    /\ sets = [i \in 1..num_sets |-> CacheSet(i - 1)]
    /\ result = [op_type |-> "none", args |-> <<>>, outcome |-> "none"]

Init ==
    /\ InitCache
    /\ queue = TagQueue(1)
    /\ touches = <<>>
    /\ ops = 0
    /\ trace = <<>>

\* a driver that keeps to the addresses of the memory
Read ==
    /\ ops < MaxOps
    /\ \E a \in WordAddrs : CacheSim_read(a)
    /\ ops' = ops + 1
    /\ UNCHANGED <<queue, touches, trace>>

Write ==
    /\ ops < MaxOps
    /\ \E a \in WordAddrs : \E w \in WordPool : CacheSim_write(a, w)
    /\ ops' = ops + 1
    /\ UNCHANGED <<queue, touches, trace>>

Next == Read \/ Write

Spec == Init /\ [][Next]_vars

\* a driver that passes any address, as CacheSim lets it; an IndexError
\* leaves the cache as it was when raised, and the driver goes on
SimAddrs == WordAddrs \cup BadAddrs \cup {memory_size, memory_size + 4}

SimRead ==
    /\ ops < MaxSimOps
    /\ \E a \in SimAddrs : CacheSim_read(a)
    /\ ops' = ops + 1
    /\ UNCHANGED <<queue, touches, trace>>

SimWrite ==
    /\ ops < MaxSimOps
    /\ \E a \in SimAddrs : \E w \in WordPool : CacheSim_write(a, w)
    /\ ops' = ops + 1
    /\ UNCHANGED <<queue, touches, trace>>

NextSim == SimRead \/ SimWrite

SpecSim == Init /\ [][NextSim]_vars

\* main.py: the cache it builds, driven by scripts over the addresses and
\* words of its script
MainAddrs == {0, 32, 1024}
MainWords == {4, 12}

MainCache ==
    /\ address_size = ADDRESS_SIZE
    /\ cache_size = CACHE_SIZE
    /\ block_size = BLOCK_SIZE
    /\ associativity = ASSOCIATIVITY
    /\ write_back = WRITE_BACK
    /\ memory = InitMemory
    /\ sets = [i \in 1..num_sets |-> CacheSet(i - 1)]
    /\ result = [op_type |-> "none", args |-> <<>>, outcome |-> "none"]

InitMain ==
    /\ MainCache
    /\ queue = TagQueue(1)
    /\ touches = <<>>
    /\ ops = 0
    /\ trace = <<>>

MainRead ==
    /\ Len(trace) < MaxTrace
    /\ \E a \in MainAddrs :
          /\ CacheSim_read(a)
          /\ trace' = Append(trace, <<"read", a>>)
    /\ UNCHANGED <<queue, touches, ops>>

MainWrite ==
    /\ Len(trace) < MaxTrace
    /\ \E a \in MainAddrs : \E w \in MainWords :
          /\ CacheSim_write(a, w)
          /\ trace' = Append(trace, <<"write", a, w>>)
    /\ UNCHANGED <<queue, touches, ops>>

NextMain == MainRead \/ MainWrite

SpecMain == InitMain /\ [][NextMain]_vars

\* a TagQueue on its own: built with some size, then touched
InitTQ ==
    /\ MainCache
    /\ \E size \in 1..MaxQueueSize : queue = TagQueue(size)
    /\ touches = <<>>
    /\ ops = 0
    /\ trace = <<>>

Touch ==
    /\ Len(touches) < MaxTouches
    /\ \E tag \in 0..(MaxTag - 1) :
          /\ queue' = update_queue(queue, tag)
          /\ touches' = Append(touches, tag)
    /\ UNCHANGED <<config, memory, sets, result, ops, trace>>

NextTQ == Touch

SpecTQ == InitTQ /\ [][NextTQ]_vars

\* Cache.split_address on its own, applied to the addresses of the memory
SplitAddrs == {a \in 0..(MaxSplitAddr - 1) : a < memory_size}

InitSplit ==
    /\ \E g \in Geometries :
         /\ address_size = g[1]
         /\ cache_size = g[2]
         /\ block_size = g[3]
         /\ associativity = g[4]
    /\ write_back = WRITE_BACK
    /\ memory = InitMemory
    /\ sets = [i \in 1..num_sets |-> CacheSet(i - 1)]
    /\ \E a \in SplitAddrs :
         result = [op_type |-> "split_address", args |-> <<a>>,
                   outcome |-> "none"]
    /\ queue = TagQueue(1)
    /\ touches = <<>>
    /\ ops = 0
    /\ trace = <<>>

Split ==
    /\ result.outcome = "none"
    /\ result' = [result EXCEPT !.outcome = "ok"]
                     @@ [split |-> split_address(result.args[1])]
    /\ UNCHANGED <<config, memory, sets, queue, touches, ops, trace>>

NextSplit == Split

SpecSplit == InitSplit /\ [][NextSplit]_vars

\* Cache.__init__ on its own, called with any sizes: no cache exists before
\* the call (sets is None), and none exists after a call that raised
InitNew ==
    /\ address_size \in 2..MaxAddressSize
    /\ cache_size \in 0..MaxCacheSize
    /\ block_size \in 0..MaxBlockSize
    /\ associativity \in 1..MaxAssociativity
    /\ write_back = WRITE_BACK
    /\ memory = InitMemory
    /\ sets = None
    /\ result = [op_type |-> "Cache", args |-> <<>>, outcome |-> "none"]
    /\ queue = TagQueue(1)
    /\ touches = <<>>
    /\ ops = 0
    /\ trace = <<>>

\* Cache.__init__: the divisions of lines 28 to 30 raise ZeroDivisionError
\* for a zero divisor, and nothing else in it raises
Cache_init ==
    /\ result.op_type = "Cache"
    /\ result.outcome = "none"
    /\ IF block_size = 0 \/ num_blocks \div associativity = 0
       THEN /\ result' = [result EXCEPT !.outcome = "ZeroDivisionError"]
            /\ sets' = sets
       ELSE /\ result' = [result EXCEPT !.outcome = "ok"]
            /\ sets' = [i \in 1..num_sets |-> CacheSet(i - 1)]
    /\ UNCHANGED <<config, memory, queue, touches, ops, trace>>

NextNew == Cache_init

SpecNew == InitNew /\ [][NextNew]_vars

\* a driver whose script is recorded: any of the caches, driven over three
\* addresses a block apart
ScriptAddrs == {0, 32, 64}

InitScript ==
    /\ InitCache
    /\ queue = TagQueue(1)
    /\ touches = <<>>
    /\ ops = 0
    /\ trace = <<>>

ScriptRead ==
    /\ Len(trace) < MaxTrace
    /\ \E a \in ScriptAddrs :
          /\ CacheSim_read(a)
          /\ trace' = Append(trace, <<"read", a>>)
    /\ UNCHANGED <<queue, touches, ops>>

ScriptWrite ==
    /\ Len(trace) < MaxTrace
    /\ \E a \in ScriptAddrs : \E w \in WordPool :
          /\ CacheSim_write(a, w)
          /\ trace' = Append(trace, <<"write", a, w>>)
    /\ UNCHANGED <<queue, touches, ops>>

NextScript == ScriptRead \/ ScriptWrite

SpecScript == InitScript /\ [][NextScript]_vars

-----------------------------------------------------------------------------
(* Vocabulary of the properties *)

\* the set of `ss` that address a maps to
SetOf(ss, a) == ss[split_address(a)[2] + 1]

\* the block of `ss` resident for the tag of address a: a TLA+ index, 0 when
\* the tag is not resident
ResidentBlock(ss, a) == find_block_index(SetOf(ss, a), split_address(a)[3]) + 1

\* the step is a CacheSim operation on address a
StepOn(a) == result'.op_type \in {"read", "write"} /\ result'.args[1] = a

\* the step is the CacheSim operation read(a) / write(a, w)
StepRead(a) == result'.op_type = "read" /\ result'.args = <<a>>
StepWrite(a, w) == result'.op_type = "write" /\ result'.args = <<a, w>>

\* the last operation completed and was a read / a write
ReadDone == result.outcome = "ok" /\ result.op_type = "read"
WriteDone == result.outcome = "ok" /\ result.op_type = "write"

\* the word of a bytearray, as CacheBlock.get_word_dec reads it
WordOf(bytes) == get_word_dec([word |-> bytes])

\* the step takes the tag of an occupied dirty block out of that block
EvictsDirty ==
    \E i \in 1..Len(sets) : \E k \in 1..Len(sets[i].blocks) :
        /\ sets[i].blocks[k].occupied
        /\ sets[i].blocks[k].dirty
        /\ sets'[i].blocks[k].tag # sets[i].blocks[k].tag

\* what a block is, apart from its place in the tracker
BlockFields(ss) ==
    [i \in 1..Len(ss) |-> ss[i].blocks]

-----------------------------------------------------------------------------
(* C1 *)

\* C1: in write-back mode, when the operation that follows write(A, w)
\* evicts the block holding A, the backing store at A holds exactly w after
\* the eviction.
C1_EvictionFlushesToOriginalAddress ==
    [][ ( /\ write_back
          /\ WriteDone
          /\ result'.op_type \in {"read", "write"}
          /\ ResidentBlock(sets, result.args[1]) # 0
          /\ ResidentBlock(sets', result.args[1]) = 0 )
        => WordOf(memory'[result.args[1]]) = result.args[2] ]_vars

-----------------------------------------------------------------------------
(* C2 *)

\* C2: after a write(A, w) completes, the block resident for A's tag in A's
\* set holds w (and is dirty in write-back mode), and a read(A) issued next
\* is a hit that returns w.
C2_WriteThenReadHits ==
    WriteDone =>
        LET a == result.args[1]
            w == result.args[2]
            k == ResidentBlock(sets, a)
            r == Cache_read(sets, memory, a)
        IN  /\ k # 0
            /\ WordOf(SetOf(sets, a).blocks[k].word) = w
            /\ write_back => SetOf(sets, a).blocks[k].dirty
            /\ ~r.raised
            /\ r.details.hit_or_miss = "hit"
            /\ r.details.word = w

-----------------------------------------------------------------------------
(* C3 *)

\* no block of any set is dirty
NoDirtyBlock ==
    \A i \in 1..Len(sets) : \A k \in 1..Len(sets[i].blocks) :
        ~sets[i].blocks[k].dirty

\* C3: in write-through mode, write(A, w) leaves w in the backing store at
\* A, no block is ever dirty, and the backing store changes only at the
\* address of a write, during that write (so no eviction stores anything).
C3_WriteThrough ==
    [][ ~write_back =>
          /\ \A a \in WordAddrs : \A w \in WordPool :
                StepWrite(a, w) => WordOf(memory'[a]) = w
          /\ NoDirtyBlock'
          /\ \A x \in WordAddrs :
                memory'[x] # memory[x] => \E w \in WordPool : StepWrite(x, w)
      ]_vars

\* a write-through cache that has stored a written word and has just evicted
\* a block on a read
C3_Witness ==
    /\ ~write_back
    /\ ReadDone
    /\ result.replace_details # None
    /\ memory # InitMemory

-----------------------------------------------------------------------------
(* C4 *)

\* C4: in write-back mode a write that hits leaves the backing store as it
\* was, and the backing store changes only in a step that evicts a dirty
\* block.
C4_WriteBackStoresOnlyOnDirtyEviction ==
    [][ write_back =>
          /\ \A a \in WordAddrs : \A w \in WordPool :
                (StepWrite(a, w) /\ ResidentBlock(sets, a) # 0)
                    => memory' = memory
          /\ memory' # memory => EvictsDirty
      ]_vars

\* a write-back cache whose backing store a flush has changed and that has
\* just completed a write hit
C4_Witness ==
    /\ write_back
    /\ WriteDone
    /\ result.hit_or_miss = "hit"
    /\ memory # InitMemory

-----------------------------------------------------------------------------
(* C5 *)

\* C5: a read(A) that directly follows a completed read(A) is a hit, returns
\* the same word, and changes neither the backing store nor any block's
\* word, tag, occupancy or dirty flag.
C5_RepeatedReadIsIdempotent ==
    [][ \A a \in WordAddrs :
          (ReadDone /\ result.args = <<a>> /\ StepRead(a)) =>
              /\ result'.outcome = "ok"
              /\ result'.hit_or_miss = "hit"
              /\ result'.word = result.word
              /\ memory' = memory
              /\ BlockFields(sets') = BlockFields(sets)
      ]_vars

\* two reads of address 64 from the empty write-back cache: the second is a
\* hit (no other address of the model shares the block of 64, and a write
\* would have left a dirty block)
C5_Witness ==
    /\ write_back
    /\ ops = 2
    /\ ReadDone
    /\ result.args = <<64>>
    /\ result.hit_or_miss = "hit"
    /\ NoDirtyBlock

-----------------------------------------------------------------------------
(* C6 *)

\* the last n entries of a sequence
LastN(seq, n) == [i \in 1..n |-> seq[Len(seq) - n + i]]

\* the sequence without its last n entries
DropLastN(seq, n) == [i \in 1..(Len(seq) - n) |-> seq[i]]

Distinct(seq) == \A i, j \in 1..Len(seq) : i # j => seq[i] # seq[j]

Range(seq) == {seq[i] : i \in 1..Len(seq)}

\* the touches end with a fill of the n slots by n distinct tags followed by
\* one access to each of these tags, T1 .. Tn, and then `extra` touches
FilledThenAccessed(extra) ==
    LET n == Len(queue)
        before == DropLastN(touches, extra)
    IN  /\ n >= 2
        /\ Len(touches) >= 2 * n + extra
        /\ Distinct(LastN(before, n))
        /\ Distinct(LastN(DropLastN(before, n), n))
        /\ Range(LastN(before, n)) = Range(LastN(DropLastN(before, n), n))

\* C6: after a queue of n >= 2 slots is filled with n distinct tags and the
\* tags are accessed in the order T1 .. Tn, the least recently used tag is
\* T1; after T1 is touched again it is T2.
C6_LeastRecentlyUsedOrder ==
    /\ FilledThenAccessed(0) =>
          get_least_recently_used(queue) = LastN(touches, Len(queue))[1]
    /\ ( /\ FilledThenAccessed(1)
         /\ touches[Len(touches)] = LastN(DropLastN(touches, 1), Len(queue))[1] )
       => get_least_recently_used(queue) = LastN(DropLastN(touches, 1), Len(queue))[2]

\* a queue of 3 slots filled, accessed in another order than it was filled,
\* and touched again at T1
C6_Witness ==
    /\ Len(queue) = 3
    /\ Len(touches) = 7
    /\ FilledThenAccessed(1)
    /\ touches[7] = touches[4]
    /\ touches[4] # touches[1]

-----------------------------------------------------------------------------
(* C7 *)

\* C7: split_address(a) is offset = a mod block_size, index = (a div
\* block_size) mod num_sets, tag = a div (block_size * num_sets), and the
\* three recompose to a.
C7_SplitAddress ==
    (result.op_type = "split_address" /\ result.outcome = "ok") =>
        LET a == result.args[1]
            offset == result.split[1]
            index == result.split[2]
            tag == result.split[3]
        IN  /\ offset = a % block_size
            /\ index = (a \div block_size) % num_sets
            /\ tag = a \div (block_size * num_sets)
            /\ tag * num_sets * block_size + index * block_size + offset = a

\* an address split into a tag, an index and an offset that are all non-zero
C7_Witness ==
    /\ result.op_type = "split_address"
    /\ result.outcome = "ok"
    /\ result.split[1] > 0
    /\ result.split[2] > 0
    /\ result.split[3] > 0

-----------------------------------------------------------------------------
(* C8 *)

\* a and b lie in different memory blocks
DifferentBlocks(a, b) ==
    LET sa == split_address(a)
        sb == split_address(b)
    IN  sa[2] # sb[2] \/ sa[3] # sb[3]

\* C8: with associativity 1, an access to b displaces the resident block of
\* an address a of another memory block exactly when a and b have the same
\* set index.
C8_DirectMappedCollision ==
    [][ associativity = 1 =>
          LET b == result'.args[1]
          IN  \A a \in WordAddrs :
                 ( /\ StepOn(b)
                   /\ DifferentBlocks(a, b)
                   /\ ResidentBlock(sets, a) # 0 )
                 => ( ResidentBlock(sets', a) = 0
                        <=> split_address(a)[2] = split_address(b)[2] )
      ]_vars

\* a direct-mapped cache in which a read has just evicted a block while a
\* block of another set stays resident
C8_Witness ==
    /\ associativity = 1
    /\ ReadDone
    /\ result.replace_details # None
    /\ \E i \in 1..Len(sets) :
          /\ i # result.set_index + 1
          /\ sets[i].blocks[1].occupied

-----------------------------------------------------------------------------
(* C9 *)

\* C9: in the cache of main.py, from the empty cache, read(0) is a miss,
\* the read(32) after it is a miss that fills another block than read(0)
\* did, and the read(1024) after that evicts the block that occupies its
\* set.
C9_MainScenario ==
    /\ trace = << <<"read", 0>> >> =>
          /\ result.hit_or_miss = "miss"
          /\ result.replace_details = None
    /\ trace = << <<"read", 0>>, <<"read", 32>> >> =>
          /\ result.hit_or_miss = "miss"
          /\ result.replace_details = None
          /\ Cardinality({i \in 1..Len(sets) : sets[i].blocks[1].occupied}) = 2
    /\ trace = << <<"read", 0>>, <<"read", 32>>, <<"read", 1024>> >> =>
          /\ result.hit_or_miss = "miss"
          /\ result.replace_details # None

-----------------------------------------------------------------------------
(* C10 *)

\* the address is one CacheSim has to reject
OutOfContract(a) == ~(0 <= a /\ a < memory_size) \/ a % 4 # 0

\* C10: a read or write of an address outside [0, 2^address_size) or not a
\* multiple of 4 is rejected, and leaves every block, every tracker and the
\* backing store as they were.
C10_BadAddressRejectedWithoutMutation ==
    [][ \A a \in SimAddrs :
          (OutOfContract(a) /\ StepOn(a)) =>
              /\ result'.outcome # "ok"
              /\ sets' = sets
              /\ memory' = memory
      ]_vars

-----------------------------------------------------------------------------
(* C11 *)

IsPowerOfTwo(n) == n >= 1 /\ Pow2(Log2(n)) = n

\* the sizes are ones the configuration allows: cache_size is n *
\* associativity * block_size for a positive n, n and block_size are powers
\* of two, and the tag width is not negative
WellSized ==
    /\ block_size >= 1
    /\ associativity >= 1
    /\ \E n \in 1..cache_size :
          /\ cache_size = n * associativity * block_size
          /\ IsPowerOfTwo(n)
          /\ IsPowerOfTwo(block_size)
          /\ address_size - (Log2(n) + Log2(block_size)) >= 0

\* C11: constructing a cache whose sizes are not WellSized fails and leaves
\* no cache, and every cache that is constructed has
\* cache_size = num_sets * associativity * block_size.
C11_ConstructionValidates ==
    (result.op_type = "Cache" /\ result.outcome # "none") =>
        /\ ~WellSized => (result.outcome # "ok" /\ sets = None)
        /\ result.outcome = "ok" =>
              cache_size = Len(sets) * associativity * block_size

-----------------------------------------------------------------------------
(* C12 *)

\* C12: the write_back flag in the result of a completed write is true
\* exactly when the write itself stored its word to the backing store, which
\* it does in write-through mode only; in write-back mode it is false.
C12_WriteBackFlagReportsStore ==
    WriteDone =>
        LET a == result.args[1]
            w == result.args[2]
        IN  /\ result.write_back = TRUE
                <=> (~write_back /\ WordOf(memory[a]) = w)
            /\ write_back => result.write_back = FALSE

-----------------------------------------------------------------------------
(* C13 *)

\* the keys of a full result record
ResultKeys ==
    {"hit_or_miss", "address", "offset", "set_index", "tag", "word",
     "replace_details", "write_back", "tag_queue"}

\* C13: every completed read and write returns a record with all of
\* ResultKeys, and a write that takes an occupied block from another tag
\* reports that tag and the block's index as its eviction.
C13_FullResultRecord ==
    [][ (result'.op_type \in {"read", "write"} /\ result'.outcome = "ok") =>
          /\ ResultKeys \subseteq DOMAIN result'
          /\ result'.op_type = "write" =>
               LET s == SetOf(sets, result'.args[1])
                   t == SetOf(sets', result'.args[1])
               IN  \A k \in 1..Len(s.blocks) :
                      (s.blocks[k].occupied /\ t.blocks[k].tag # s.blocks[k].tag)
                          => result'.replace_details = <<s.blocks[k].tag, k - 1>>
      ]_vars

-----------------------------------------------------------------------------
(* C14 *)

\* C14: every completed read or write of an address A touches the tracker
\* of A's set exactly once with A's tag, so that the tag of A is at the most
\* recently used end of the tracker afterwards.
C14_AccessTouchesTrackerOnce ==
    [][ (result'.op_type \in {"read", "write"} /\ result'.outcome = "ok") =>
          LET a == result'.args[1]
              tag == split_address(a)[3]
              before == SetOf(sets, a).tag_queue
              after == SetOf(sets', a).tag_queue
          IN  /\ after = update_queue(before, tag)
              /\ after[Len(after)] = tag
      ]_vars

-----------------------------------------------------------------------------
(* C15 *)

\* the position in the script of the last access to the memory block of
\* tag `tag` in the set of Python index `index`, 0 when there was none
LastUse(index, tag) ==
    LET uses == {p \in 1..Len(trace) :
                    /\ split_address(trace[p][2])[2] = index
                    /\ split_address(trace[p][2])[3] = tag}
    IN  IF uses = {} THEN 0 ELSE CHOOSE p \in uses : \A r \in uses : r <= p

\* the tags of the occupied blocks of set s
OccupiedTags(s) ==
    {s.blocks[k].tag : k \in {j \in 1..Len(s.blocks) : s.blocks[j].occupied}}

\* the entries of the tracker of set s that are tags are exactly the tags of
\* its occupied blocks, each once
TrackerHoldsOccupiedTags(s) ==
    LET q == s.tag_queue
    IN  /\ {q[j] : j \in {x \in 1..Len(q) : q[x] # -1}} = OccupiedTags(s)
        /\ \A j, k \in 1..Len(q) : (j # k /\ q[j] # -1) => q[j] # q[k]

\* C15: in every reachable state and for every set, the entries of the
\* tracker that are tags are exactly the tags of the set's occupied blocks,
\* each once, in the order of their last use: least recently used first.
C15_TrackerIsOccupiedTagsInUseOrder ==
    \A i \in 1..Len(sets) :
        LET q == sets[i].tag_queue
        IN  /\ TrackerHoldsOccupiedTags(sets[i])
            /\ \A j, k \in 1..Len(q) :
                  (j < k /\ q[j] # -1 /\ q[k] # -1)
                      => LastUse(i - 1, q[j]) < LastUse(i - 1, q[k])

-----------------------------------------------------------------------------
(* C16 *)

\* the blocks of set s whose tag or occupancy differs in set t
Retagged(s, t) ==
    {k \in 1..Len(s.blocks) :
        \/ s.blocks[k].tag # t.blocks[k].tag
        \/ s.blocks[k].occupied # t.blocks[k].occupied}

\* the dictionary read_from_memory returned in the step: the result of a
\* read, and what Cache.write got from it on a write miss
MissReport ==
    IF result'.op_type = "read" THEN result'
    ELSE LET a == result'.args[1]
             sp == split_address(a)
         IN  Set_read_from_memory(SetOf(sets, a), memory, a, sp[3], sp[1]).details

\* C16: on a miss in a set with an unoccupied block, an unoccupied block is
\* filled, no resident block changes tag or occupancy and no eviction is
\* reported; on a miss in a set whose blocks are all occupied, the one block
\* that changes is the block whose tag is at index 0 of the tracker, and the
\* evicted tag and slot index reported are its tag and index.
C16_FreeBlockFirstThenLeastRecentlyUsed ==
    [][ ( /\ result'.op_type \in {"read", "write"}
          /\ result'.outcome = "ok"
          /\ result'.hit_or_miss = "miss" ) =>
          LET a == result'.args[1]
              tag == split_address(a)[3]
              s == SetOf(sets, a)
              t == SetOf(sets', a)
          IN  IF \E k \in 1..Len(s.blocks) : ~s.blocks[k].occupied
              THEN /\ \E k \in 1..Len(s.blocks) :
                         /\ ~s.blocks[k].occupied
                         /\ t.blocks[k].occupied
                         /\ t.blocks[k].tag = tag
                         /\ Retagged(s, t) = {k}
                   /\ MissReport.replace_details = None
              ELSE \E k \in 1..Len(s.blocks) :
                         /\ s.blocks[k].tag = s.tag_queue[1]
                         /\ Retagged(s, t) = {k}
                         /\ t.blocks[k].occupied
                         /\ t.blocks[k].tag = tag
                         /\ MissReport.replace_details = <<s.tag_queue[1], k - 1>>
      ]_vars

\* a set of two blocks in which a read has just evicted the block of index
\* 1, whose tag had become the least recently used through a hit on the other
C16_Witness ==
    /\ associativity = 2
    /\ ReadDone
    /\ result.hit_or_miss = "miss"
    /\ result.replace_details # None
    /\ result.replace_details[2] = 1

-----------------------------------------------------------------------------
(* C17 *)

\* C17: after a read miss on address A with tag T, the block that was
\* filled is occupied, not dirty, has tag T and holds the four bytes of the
\* backing store at A.
C17_ReadMissFillsBlock ==
    [][ ( /\ result'.op_type = "read"
          /\ result'.outcome = "ok"
          /\ result'.hit_or_miss = "miss" ) =>
          LET a == result'.args[1]
              tag == split_address(a)[3]
              s == SetOf(sets, a)
              t == SetOf(sets', a)
          IN  \E k \in 1..Len(t.blocks) :
                 /\ Retagged(s, t) = {k}
                 /\ t.blocks[k].occupied
                 /\ ~t.blocks[k].dirty
                 /\ t.blocks[k].tag = tag
                 /\ \A i \in 1..4 : t.blocks[k].word[i] = memory'[a][i]
      ]_vars

-----------------------------------------------------------------------------
(* C18 *)

\* C18: in every reachable state an unoccupied block has the tag -1, a word
\* of zeros and is not dirty, and a dirty block is occupied.
C18_UnoccupiedBlockIsBlank ==
    \A i \in 1..Len(sets) : \A k \in 1..Len(sets[i].blocks) :
        LET b == sets[i].blocks[k]
        IN  /\ ~b.occupied =>
                 /\ b.tag = -1
                 /\ \A j \in 1..Len(b.word) : b.word[j] = 0
                 /\ ~b.dirty
            /\ b.dirty => b.occupied

-----------------------------------------------------------------------------
(* C19 *)

\* C19: in every reachable state no two occupied blocks of a set have the
\* same tag.
C19_TagsUniqueInSet ==
    \A i \in 1..Len(sets) : \A j, k \in 1..Len(sets[i].blocks) :
        ( /\ j # k
          /\ sets[i].blocks[j].occupied
          /\ sets[i].blocks[k].occupied )
        => sets[i].blocks[j].tag # sets[i].blocks[k].tag

\* a set of two occupied blocks, one of them just refilled by an evicting
\* read
C19_Witness ==
    /\ associativity = 2
    /\ ReadDone
    /\ result.replace_details # None
    /\ \A k \in 1..2 : sets[result.set_index + 1].blocks[k].occupied

-----------------------------------------------------------------------------
(* C20 *)

\* the word a flat memory holds at address a after the script: the word of
\* the last write to a, or the word CacheSim.__init__ put there
FlatWord(a) ==
    LET writes == {p \in 1..Len(trace) :
                      trace[p][1] = "write" /\ trace[p][2] = a}
    IN  IF writes = {} THEN WordOf(InitMemory[a])
        ELSE trace[CHOOSE p \in writes : \A r \in writes : r <= p][3]

\* C20: every completed read(A) of a script of reads and writes returns the
\* word most recently written to A, or the initial word of the backing
\* store at A when A was never written.
C20_CacheIsTransparent ==
    (ReadDone /\ trace # <<>>) => result.word = FlatWord(result.args[1])

-----------------------------------------------------------------------------
(* C21 *)

\* C21: a read or write of an address whose index is i changes only set i:
\* the blocks and the tracker of every other set are as they were before.
C21_OnlyTheAddressedSetChanges ==
    [][ result'.op_type \in {"read", "write"} =>
          LET i == split_address(result'.args[1])[2]
          IN  \A j \in 1..Len(sets) :
                 j # i + 1 =>
                     /\ Len(sets') = Len(sets)
                     /\ sets'[j].blocks = sets[j].blocks
                     /\ sets'[j].tag_queue = sets[j].tag_queue
      ]_vars

\* a cache of several sets in which a write to the set of index 1 has just
\* completed while set 0 holds an occupied block
C21_Witness ==
    /\ Len(sets) >= 2
    /\ WriteDone
    /\ result.set_index = 1
    /\ sets[2].blocks[1].occupied
    /\ sets[1].blocks[1].occupied

-----------------------------------------------------------------------------
(* C22 *)

\* C22: after a miss that evicts a block, evicted_tag and
\* evicted_block_index of the set hold the tag and the index of the block
\* evicted; after a miss that fills a free block they hold -1.
C22_EvictionScratchFields ==
    [][ ( /\ result'.op_type \in {"read", "write"}
          /\ result'.outcome = "ok"
          /\ result'.hit_or_miss = "miss" ) =>
          LET a == result'.args[1]
              s == SetOf(sets, a)
              t == SetOf(sets', a)
          IN  IF \E k \in 1..Len(s.blocks) : ~s.blocks[k].occupied
              THEN /\ t.evicted_tag = -1
                   /\ t.evicted_block_index = -1
              ELSE \A k \in Retagged(s, t) :
                      /\ t.evicted_tag = s.blocks[k].tag
                      /\ t.evicted_block_index = k - 1
      ]_vars

====
